---------------------------- MODULE Spec2Model ----------------------------
(***************************************************************************)
(* A model of template_preprocessor/core/js_processor.py: the JavaScript   *)
(* lexer state table, the statement validator, the whitespace compressor,  *)
(* the gettext rewriter, the variable renamer and the translation cache.   *)
(*                                                                         *)
(* A parse-tree node is a record [kind, text, kids]: kind is the class the *)
(* node was patched to by _add_javascript_parser_extensions, text is the   *)
(* list of its string children and kids the list of its Token children.    *)
(* A node is identified by its path: the child indexes from the root.      *)
(* Text is a list of pieces; a piece is one whitespace character or a run  *)
(* of characters holding no whitespace.                                    *)
(***************************************************************************)
EXTENDS Integers, Sequences, FiniteSets, TLC

VARIABLES pc, js_node, outcome, string, lexer, translations, loads, threads,
          language, remembered, symbol_table, link_to, varnames,
          global_variable_names, numeral

vars == <<pc, js_node, outcome, string, lexer, translations, loads, threads,
          language, remembered, symbol_table, link_to, varnames,
          global_variable_names, numeral>>

treeVars == <<pc, js_node, outcome>>

gettextVars == <<language, remembered>>

minifyVars == <<symbol_table, link_to, varnames, global_variable_names, numeral>>

lexVars == <<string, lexer>>

cacheVars == <<translations, loads, threads>>

(***************************************************************************)
(* Bounds of the explored inputs.                                          *)
(***************************************************************************)
MaxChildren == 4

MaxLexInput == 5

MaxCompressKids == 2

NumThreads == 2

MaxCalls == 2

MaxUnits == 4

MaxAvoided == 380

MaxParameters == 3

(***************************************************************************)
(* Node model                                                              *)
(***************************************************************************)
Tok(kind, text) == [kind |-> kind, text |-> text, kids |-> <<>>]

Grp(kind, kids) == [kind |-> kind, text |-> <<>>, kids |-> kids]

JavascriptScope(kids) == Grp("js-scope", kids)

JavascriptParentheses(kids) == Grp("js-parentheses", kids)

JavascriptSquareBrackets(kids) == Grp("js-square-brackets", kids)

JavascriptWhiteSpace(text) == Tok("js-whitespace", text)

JavascriptOperator(text) == Tok("js-operator", text)

JavascriptKeyword(word) == Tok("js-keyword", <<word>>)

JavascriptVariable(name) == Tok("js-varname", <<name>>)

JavascriptNumber(digits) == Tok("js-number", <<digits>>)

DjangoTag == Tok("django-tag", <<"{%t%}">>)

Root(kids) == Grp("root", kids)

WhitespaceChars == {" ", "\n", "\t"}

RECURSIVE JoinText(_)
JoinText(pieces) ==
    IF pieces = <<>> THEN "" ELSE Head(pieces) \o JoinText(Tail(pieces))

RECURSIVE LStrip(_)
LStrip(pieces) ==
    IF pieces # <<>> /\ Head(pieces) \in WhitespaceChars
    THEN LStrip(Tail(pieces)) ELSE pieces

RECURSIVE RStrip(_)
RStrip(pieces) ==
    IF pieces # <<>> /\ pieces[Len(pieces)] \in WhitespaceChars
    THEN RStrip(SubSeq(pieces, 1, Len(pieces) - 1)) ELSE pieces

Strip(pieces) == RStrip(LStrip(pieces))

operator(n) == JoinText(Strip(n.text))

keyword(n) == JoinText(n.text)

is_comma(n) == operator(n) = ","

is_semicolon(n) == operator(n) = ";"

is_colon(n) == operator(n) = ":"

IsKind(n, kind) == n.kind = kind

Range(seq) == { seq[k] : k \in 1..Len(seq) }

IsToken(n) == n.kind # "django-tag"

RECURSIVE NodeAt(_, _)
NodeAt(node, path) ==
    IF path = <<>> THEN node ELSE NodeAt(node.kids[Head(path)], Tail(path))

RECURSIVE ChildNodesFrom(_, _, _, _)
RECURSIVE child_nodes_of_class(_, _, _)
child_nodes_of_class(node, path, kinds) == ChildNodesFrom(node, path, kinds, 1)

ChildNodesFrom(node, path, kinds, i) ==
    IF i > Len(node.kids) THEN <<>>
    ELSE LET c == node.kids[i]
             p == Append(path, i)
         IN (IF c.kind \in kinds THEN <<p>> ELSE <<>>)
            \o child_nodes_of_class(c, p, kinds)
            \o ChildNodesFrom(node, path, kinds, i + 1)

(***************************************************************************)
(* __JS_STATES: the lexer's state table, run by the tokenizing engine.     *)
(* The input is a list of characters; position is one more than Python's.  *)
(***************************************************************************)
Lowercase ==
    { "a", "b", "c", "d", "e", "f", "g", "h", "i", "j", "k", "l", "m",
      "n", "o", "p", "q", "r", "s", "t", "u", "v", "w", "x", "y", "z" }

Uppercase ==
    { "A", "B", "C", "D", "E", "F", "G", "H", "I", "J", "K", "L", "M",
      "N", "O", "P", "Q", "R", "S", "T", "U", "V", "W", "X", "Y", "Z" }

Digits == { "0", "1", "2", "3", "4", "5", "6", "7", "8", "9" }

IdentStart == Lowercase \cup Uppercase \cup { "_", "$" }

IdentChars == IdentStart \cup Digits

WordChars == Lowercase \cup Uppercase \cup Digits \cup { "_" }

NumberChars == Digits \cup { "." }

OperatorChars ==
    { ";", ",", "=", "?", ":", "|", "^", "&", "!", "<", ">", "*", "%", "~",
      ".", "+", "-" }

\* The keywords of the root state's keyword transition, as character lists.
LexerKeywords ==
    << <<"b", "r", "e", "a", "k">>,
       <<"c", "a", "t", "c", "h">>,
       <<"c", "o", "n", "s", "t">>,
       <<"c", "o", "n", "t", "i", "n", "u", "e">>,
       <<"d", "e", "b", "u", "g", "g", "e", "r">>,
       <<"d", "e", "f", "a", "u", "l", "t">>,
       <<"d", "e", "l", "e", "t", "e">>,
       <<"d", "o">>,
       <<"e", "l", "s", "e">>,
       <<"e", "n", "u", "m">>,
       <<"f", "a", "l", "s", "e">>,
       <<"f", "i", "n", "a", "l", "l", "y">>,
       <<"f", "o", "r">>,
       <<"f", "u", "n", "c", "t", "i", "o", "n">>,
       <<"c", "a", "s", "e">>,
       <<"i", "f">>,
       <<"n", "e", "w">>,
       <<"n", "u", "l", "l">>,
       <<"r", "e", "t", "u", "r", "n">>,
       <<"s", "w", "i", "t", "c", "h">>,
       <<"t", "h", "i", "s">>,
       <<"t", "h", "r", "o", "w">>,
       <<"t", "r", "u", "e">>,
       <<"t", "r", "y">>,
       <<"t", "y", "p", "e", "o", "f">>,
       <<"v", "a", "r">>,
       <<"v", "o", "i", "d">>,
       <<"w", "h", "i", "l", "e">>,
       <<"w", "i", "t", "h">> >>

At(s, p) == IF p >= 1 /\ p <= Len(s) THEN s[p] ELSE ""

RECURSIVE Run(_, _, _)
\* The number of characters from p on that lie in class C.
Run(s, p, C) == IF At(s, p) \in C THEN 1 + Run(s, p + 1, C) ELSE 0

RECURSIVE RunNot(_, _, _)
\* The number of characters from p on that lie outside class C.
RunNot(s, p, C) ==
    IF p <= Len(s) /\ s[p] \notin C THEN 1 + RunNot(s, p + 1, C) ELSE 0

MatchLiteral(s, p, lit) ==
    IF p + Len(lit) - 1 <= Len(s) /\ SubSeq(s, p, p + Len(lit) - 1) = lit
    THEN Len(lit) ELSE 0

\* \s*[C]\s*
MatchPadded(s, p, C) ==
    LET w == Run(s, p, WhitespaceChars)
    IN IF At(s, p + w) \in C
       THEN w + 1 + Run(s, p + w + 1, WhitespaceChars) ELSE 0

\* (break|...|with)(?![a-zA-Z0-9_$])
MatchKeyword(s, p) ==
    LET hits == { k \in 1..Len(LexerKeywords) :
                    /\ MatchLiteral(s, p, LexerKeywords[k]) > 0
                    /\ At(s, p + Len(LexerKeywords[k])) \notin IdentChars }
    IN IF hits = {} THEN 0
       ELSE Len(LexerKeywords[CHOOSE k \in hits : \A h \in hits : k <= h])

\* \s*(in|instanceof)\b\s*
MatchInOperator(s, p) ==
    LET w == Run(s, p, WhitespaceChars)
        word(lit) == /\ MatchLiteral(s, p + w, lit) > 0
                     /\ At(s, p + w + Len(lit)) \notin WordChars
        n == IF word(<<"i", "n">>) THEN 2
             ELSE IF word(<<"i", "n", "s", "t", "a", "n", "c", "e", "o", "f">>)
                  THEN 10 ELSE 0
    IN IF n = 0 THEN 0 ELSE w + n + Run(s, p + w + n, WhitespaceChars)

\* [a-zA-Z_$][a-zA-Z_$0-9]*
MatchVarname(s, p) ==
    IF At(s, p) \in IdentStart THEN 1 + Run(s, p + 1, IdentChars) ELSE 0

\* \s*/(?![/*])   (the start of a regex object)
MatchRegexStart(s, p) ==
    LET w == Run(s, p, WhitespaceChars)
    IN IF At(s, p + w) = "/" /\ At(s, p + w + 1) \notin {"/", "*"}
       THEN w + 1 ELSE 0

\* \s*/(?![/*])\s*   (the division operator of after-varname)
MatchDivision(s, p) ==
    LET n == MatchRegexStart(s, p)
    IN IF n = 0 THEN 0 ELSE n + Run(s, p + n, WhitespaceChars)

\* (\*(?!/)|[^\*])+   and   (\*(?!/))+
RECURSIVE MatchCommentBody(_, _, _)
MatchCommentBody(s, p, starsOnly) ==
    IF p > Len(s) THEN 0
    ELSE IF s[p] = "*"
         THEN IF At(s, p + 1) = "/" THEN 0
              ELSE 1 + MatchCommentBody(s, p + 1, starsOnly)
         ELSE IF starsOnly THEN 0 ELSE 1 + MatchCommentBody(s, p + 1, starsOnly)

\* \\(.|\n|\r)
MatchEscape(s, p) == IF At(s, p) = "\\" /\ p + 1 <= Len(s) THEN 2 ELSE 0

\* \\.
MatchEscapeNoNewline(s, p) ==
    IF At(s, p) = "\\" /\ p + 1 <= Len(s) /\ s[p + 1] # "\n" THEN 2 ELSE 0

\* /[a-z]*
MatchRegexEnd(s, p) ==
    IF At(s, p) = "/" THEN 1 + Run(s, p + 1, Lowercase) ELSE 0

\* .|\s
MatchAny(s, p) == IF p <= Len(s) THEN 1 ELSE 0

StartToken(name) == [op |-> "StartToken", arg |-> name]

StopToken(name) == [op |-> "StopToken", arg |-> name]

Record(value) == [op |-> "Record", arg |-> value]

Shift == [op |-> "Shift", arg |-> ""]

Push(state) == [op |-> "Push", arg |-> state]

Pop == [op |-> "Pop", arg |-> ""]

Error(message) == [op |-> "Error", arg |-> message]

Transition(count, action_list) == [count |-> count, actions |-> action_list]

StringState(s, p, quote, message) ==
    << Transition(MatchLiteral(s, p, <<quote>>), <<Pop, Shift, StopToken("")>>),
       Transition(MatchLiteral(s, p, <<"\\", "'">>), <<Record("'"), Shift>>),
       Transition(MatchLiteral(s, p, <<"\\", "\"">>), <<Record("\""), Shift>>),
       Transition(MatchEscape(s, p), <<Record(""), Shift>>),
       Transition(RunNot(s, p, {quote, "\\"}), <<Record(""), Shift>>),
       Transition(MatchAny(s, p), <<Error(message)>>) >>

Leaf(name) == <<StartToken(name), Record(""), Shift, StopToken("")>>

JS_STATES(state, s, p) ==
    CASE state = "root" ->
      << Transition(MatchPadded(s, p, {"{"}), <<StartToken("js-scope"), Shift>>),
         Transition(MatchPadded(s, p, {"}"}), <<StopToken("js-scope"), Shift>>),
         Transition(MatchLiteral(s, p, <<"/", "*">>),
                    <<Push("multiline-comment"), Shift>>),
         Transition(MatchLiteral(s, p, <<"/", "/">>),
                    <<Push("singleline-comment"), Shift>>),
         Transition(MatchLiteral(s, p, <<"\"">>),
                    <<Push("double-quoted-string"),
                      StartToken("js-double-quoted-string"), Shift>>),
         Transition(MatchLiteral(s, p, <<"'">>),
                    <<Push("single-quoted-string"),
                      StartToken("js-single-quoted-string"), Shift>>),
         Transition(MatchKeyword(s, p), Leaf("js-keyword")),
         Transition(MatchInOperator(s, p), Leaf("js-operator")),
         Transition(MatchPadded(s, p, OperatorChars), Leaf("js-operator")),
         Transition(MatchPadded(s, p, {"("}),
                    <<StartToken("js-parentheses"), Shift>>),
         Transition(MatchPadded(s, p, {")"}),
                    <<StopToken("js-parentheses"), Shift, Push("after-varname")>>),
         Transition(MatchPadded(s, p, {"["}),
                    <<StartToken("js-square-brackets"), Shift>>),
         Transition(MatchPadded(s, p, {"]"}),
                    <<StopToken("js-square-brackets"), Shift,
                      Push("after-varname")>>),
         Transition(MatchVarname(s, p),
                    Leaf("js-varname") \o <<Push("after-varname")>>),
         Transition(Run(s, p, NumberChars),
                    Leaf("js-number") \o <<Push("after-varname")>>),
         Transition(Run(s, p, WhitespaceChars), Leaf("js-whitespace")),
         Transition(MatchRegexStart(s, p),
                    <<StartToken("js-regex-object"), Record(""), Shift,
                      Push("regex-object")>>),
         Transition(MatchAny(s, p), <<Error("Error in parser #1")>>) >>
    [] state = "double-quoted-string" ->
         StringState(s, p, "\"", "Error in parser #2")
    [] state = "single-quoted-string" ->
         StringState(s, p, "'", "Error in parser #3")
    [] state = "multiline-comment" ->
      << Transition(MatchLiteral(s, p, <<"*", "/">>), <<Shift, Pop>>),
         Transition(MatchCommentBody(s, p, FALSE), <<Shift>>),
         Transition(MatchCommentBody(s, p, TRUE), <<Shift>>),
         Transition(MatchAny(s, p), <<Error("Error in parser #4")>>) >>
    [] state = "singleline-comment" ->
      << Transition(MatchLiteral(s, p, <<"\n">>), <<Shift, Pop>>),
         Transition(RunNot(s, p, {"\n"}), <<Shift>>),
         Transition(MatchAny(s, p), <<Error("Error in parser #5")>>) >>
    [] state = "after-varname" ->
      << Transition(MatchDivision(s, p), Leaf("js-operator")),
         Transition(MatchLiteral(s, p, <<"/", "*">>),
                    <<Push("multiline-comment"), Shift>>),
         Transition(IF MatchLiteral(s, p, <<"/", "/">>) > 0
                    THEN 2 + RunNot(s, p + 2, {"\n"}) ELSE 0, <<Shift>>),
         Transition(MatchAny(s, p), <<Pop>>),
         Transition(MatchAny(s, p), <<Error("Error in parser #6")>>) >>
    [] state = "regex-object" ->
      << Transition(MatchEscapeNoNewline(s, p), <<Record(""), Shift>>),
         Transition(RunNot(s, p, {"/", "\\"}), <<Record(""), Shift>>),
         Transition(MatchRegexEnd(s, p),
                    <<Record(""), Shift, StopToken(""), Pop>>),
         Transition(MatchAny(s, p), <<Error("Error in parser #7")>>) >>

(***************************************************************************)
(* The tokenizing engine: at each position the first transition of the     *)
(* state on top of the stack that matches is taken and its actions run in  *)
(* order.  tokens is the token stream in the order of emission: a token    *)
(* started holds the text recorded into it; the end of a group is one more *)
(* entry, marked stop.  token_stack holds the indexes of the open tokens.  *)
(* A StopToken with no token open ends the scan with an error.             *)
(***************************************************************************)
GroupNames == {"js-scope", "js-parentheses", "js-square-brackets"}

Last(seq) == seq[Len(seq)]

Front(seq) == SubSeq(seq, 1, Len(seq) - 1)

ExecuteAction(L, a, content) ==
    CASE a.op = "Record" ->
           IF L.token_stack = <<>> THEN L
           ELSE [L EXCEPT !.tokens[Last(L.token_stack)].text =
                              @ \o (IF a.arg = "" THEN content ELSE <<a.arg>>)]
      [] a.op = "Shift" ->
           [L EXCEPT !.position = @ + L.count, !.count = 0]
      [] a.op = "Push" -> [L EXCEPT !.state_stack = Append(@, a.arg)]
      [] a.op = "Pop" -> [L EXCEPT !.state_stack = Front(@)]
      [] a.op = "StartToken" ->
           [L EXCEPT !.tokens = Append(@, [name |-> a.arg, text |-> <<>>,
                                           stop |-> FALSE]),
                     !.token_stack = Append(@, Len(L.tokens) + 1)]
      [] a.op = "StopToken" ->
           IF L.token_stack = <<>>
           THEN [L EXCEPT !.error = "StopToken: no token is open"]
           ELSE
           LET name == L.tokens[Last(L.token_stack)].name
           IN [L EXCEPT !.token_stack = Front(@),
                        !.tokens = IF name \in GroupNames
                                   THEN Append(@, [name |-> name, text |-> <<>>,
                                                   stop |-> TRUE])
                                   ELSE @]
      [] a.op = "Error" -> [L EXCEPT !.error = a.arg]

RECURSIVE Execute(_, _, _)
Execute(L, action_list, content) ==
    IF action_list = <<>> THEN L
    ELSE Execute(ExecuteAction(L, Head(action_list), content),
                 Tail(action_list), content)

FirstMatch(transitions) ==
    CHOOSE k \in 1..Len(transitions) :
        /\ transitions[k].count > 0
        /\ \A j \in 1..(k - 1) : transitions[j].count = 0

tokenize_step(s, L) ==
    LET table == JS_STATES(Last(L.state_stack), s, L.position)
        t     == table[FirstMatch(table)]
        content == SubSeq(s, L.position, L.position + t.count - 1)
    IN Execute([L EXCEPT !.count = t.count], t.actions, content)

LexerStart ==
    [position |-> 1, count |-> 0, state_stack |-> <<"root">>,
     token_stack |-> <<>>, tokens |-> <<>>, error |-> ""]

(***************************************************************************)
(* translate_js and the module-level dictionary `translations`.            *)
(* translations[lang] is 0 while the language has no entry, and otherwise  *)
(* the number of the load that produced the entry.  A thread's pc is the   *)
(* line of translate_js it is about to run.                                *)
(***************************************************************************)
Languages == {"en", "nl"}

\* The languages for which a djangojs catalog file exists.
Catalogs == {"nl"}

Threads == 1..NumThreads

IdleThread == [pc |-> "idle", lang |-> "en", loaded |-> 0, calls |-> 0,
               result |-> 0]

\* The translation function stored for a language by a load: the catalog's
\* ugettext, or the identity when gettext.translation raises IOError.
\* The text is a list of pieces; a catalog's entry for a text is written as
\* the text marked with the language.
LoadedTranslation(lang, text) ==
    IF lang \in Catalogs THEN <<"[", lang, "]">> \o text ELSE text

\* line 126: lang = get_language()
get_language(t, lang) ==
    /\ threads[t].pc = "idle"
    /\ threads[t].calls < MaxCalls
    /\ threads' = [threads EXCEPT ![t].pc = "test", ![t].lang = lang]
    /\ UNCHANGED <<translations, loads>>

\* line 129: if lang not in translations
test_cached(t) ==
    /\ threads[t].pc = "test"
    /\ threads' = [threads EXCEPT ![t].pc =
                      IF translations[threads[t].lang] = 0 THEN "load"
                      ELSE "return"]
    /\ UNCHANGED <<translations, loads>>

\* lines 130-136: gettext.translation('djangojs', 'locale', [lang]) reads
\* the catalog, or raises IOError and the identity is taken instead.
load_catalog(t) ==
    /\ threads[t].pc = "load"
    /\ loads' = [loads EXCEPT ![threads[t].lang] = @ + 1]
    /\ threads' = [threads EXCEPT ![t].pc = "store",
                                  ![t].loaded = loads[threads[t].lang] + 1]
    /\ UNCHANGED translations

\* lines 131, 136: translations[lang] = ...
store_translation(t) ==
    /\ threads[t].pc = "store"
    /\ translations' = [translations EXCEPT ![threads[t].lang] = threads[t].loaded]
    /\ threads' = [threads EXCEPT ![t].pc = "return"]
    /\ UNCHANGED loads

\* line 139: return translations[lang](text)
return_translation(t) ==
    /\ threads[t].pc = "return"
    /\ threads' = [threads EXCEPT ![t].pc = "idle",
                                  ![t].result = translations[threads[t].lang],
                                  ![t].calls = @ + 1]
    /\ UNCHANGED <<translations, loads>>

(***************************************************************************)
(* _compress_javascript_whitespace                                         *)
(***************************************************************************)
\* Lines 355-357 altered: the raw content is compared, not the
\* stripped operator.
compressed_operator_unstripped(c) ==
    IF JoinText(c.text) = "in" THEN <<" ", "in", " ">>
    ELSE IF JoinText(c.text) = "instanceof" THEN <<" ", "instanceof", " ">>
    ELSE Strip(c.text)

\* lines 354-360: the content an Operator token is given.
compressed_operator(c) ==
    IF operator(c) = "in" THEN <<" ", "in", " ">>
    ELSE IF operator(c) = "instanceof" THEN <<" ", "instanceof", " ">>
    ELSE Strip(c.text)

\* lines 350-360: the content a child token is given in the loop.
compressed_content(c) ==
    IF IsKind(c, "js-whitespace") THEN <<" ">>
    ELSE IF IsKind(c, "js-operator") THEN compressed_operator(c)
    ELSE c.text

RECURSIVE compress_javascript_whitespace(_)
compress_javascript_whitespace(node) ==
    LET n == Len(node.kids)
        looped == [i \in 1..n |->
                     IF IsToken(node.kids[i])
                     THEN compress_javascript_whitespace(
                              [node.kids[i] EXCEPT
                                  !.text = compressed_content(node.kids[i])])
                     ELSE node.kids[i]]
        \* lines 365-368: children[0] and children[-1]
        trimmed == [i \in 1..n |->
                      IF i \in {1, n} /\ IsKind(looped[i], "js-whitespace")
                      THEN [looped[i] EXCEPT !.text = <<"">>]
                      ELSE looped[i]]
    IN [node EXCEPT !.kids = trimmed]

(***************************************************************************)
(* _validate_javascript                                                    *)
(***************************************************************************)
BlockKeywords == {"for", "if", "switch", "function", "try", "catch", "while"}

has_node(children, i) == i <= Len(children)

RECURSIVE SkipBack(_, _)
SkipBack(children, j) ==
    IF j > 1 /\ IsKind(children[j], "js-whitespace")
    THEN SkipBack(children, j - 1) ELSE j

\* Index of the token get_last_non_whitespace_token returns, 0 for None.
\* Indexes are one more than Python's: the code's "if j" is j > 1 here.
get_last_non_whitespace_token(children, i) ==
    IF i > 1
    THEN LET j == SkipBack(children, i - 1) IN IF j > 1 THEN j ELSE 0
    ELSE 0

RECURSIVE SkipWhitespace(_, _)
SkipWhitespace(children, i) ==
    IF has_node(children, i) /\ IsKind(children[i], "js-whitespace")
    THEN SkipWhitespace(children, i + 1) ELSE i

VarPredecessorAllowed(n) ==
    \/ IsKind(n, "js-operator") /\ operator(n) = ";"
    \/ IsKind(n, "js-operator") /\ operator(n) = ":"
    \/ IsKind(n, "js-scope") \/ IsKind(n, "django-tag")
    \/ IsKind(n, "js-parentheses")

\* The cursor after the keyword, the function name, the parameter list and
\* the scope; 0 when current_node() is read past the end of the children.
SkipConstruct(children, i) ==
    LET c  == children[i]
        a  == SkipWhitespace(children, i + 1)
        i1 == IF keyword(c) = "function"
              THEN IF ~has_node(children, a) THEN 0
                   ELSE IF IsKind(children[a], "js-varname") THEN a + 1 ELSE a
              ELSE i + 1
        i2 == IF i1 = 0 THEN 0 ELSE SkipWhitespace(children, i1)
        i3 == IF i2 = 0 \/ ~has_node(children, i2) THEN 0
              ELSE IF IsKind(children[i2], "js-parentheses") THEN i2 + 1 ELSE i2
        i4 == IF i3 = 0 THEN 0 ELSE SkipWhitespace(children, i3)
    IN IF i4 = 0 THEN 0
       ELSE IF has_node(children, i4) /\ IsKind(children[i4], "js-scope")
            THEN i4 + 1 ELSE i4

\* Line 727 altered: a Number is taken as a Variable is.
is_variable_or_number(c) == IsKind(c, "js-varname") \/ IsKind(c, "js-number")

\* line 727: elif isinstance(c, JavascriptVariable)
is_variable(c) == IsKind(c, "js-varname")

RECURSIVE scan(_, _, _)
scan(children, i, semi_colon_required) ==
    IF ~has_node(children, i) THEN "accept"
    ELSE LET c == children[i]
             last == get_last_non_whitespace_token(children, i)
         IN
         IF IsKind(c, "js-keyword") /\ keyword(c) \in BlockKeywords
         THEN IF semi_colon_required THEN "MissingSemicolon"
              ELSE LET after == SkipConstruct(children, i)
                       required == /\ keyword(c) = "function"
                                   /\ last # 0
                                   /\ IsKind(children[last], "js-operator")
                                   /\ operator(children[last]) = "="
                   IN IF after = 0 THEN "IndexError"
                      ELSE scan(children, after, required)
         ELSE IF IsKind(c, "js-keyword") /\ keyword(c) = "var"
         THEN IF last # 0 /\ ~VarPredecessorAllowed(children[last])
              THEN "MissingSemicolon"
              ELSE scan(children, i + 1, semi_colon_required)
         ELSE IF IsKind(c, "js-operator")
         THEN scan(children, i + 1, FALSE)
         ELSE IF IsKind(c, "js-parentheses") \/ IsKind(c, "js-square-brackets")
         THEN scan(children, i + 1, TRUE)
         ELSE IF IsKind(c, "js-scope")
         THEN scan(children, i + 1, FALSE)
         ELSE IF IsKind(c, "js-keyword") /\ keyword(c) = "return"
         THEN IF semi_colon_required THEN "MissingSemicolon"
              ELSE scan(children, i + 1, FALSE)
         ELSE IF is_variable(c)
         THEN IF semi_colon_required THEN "MissingSemicolon"
              ELSE scan(children, i + 1, TRUE)
         ELSE scan(children, i + 1, semi_colon_required)

TrailingComma(scope) ==
    /\ scope.kids # <<>>
    /\ IsKind(scope.kids[Len(scope.kids)], "js-operator")
    /\ is_comma(scope.kids[Len(scope.kids)])

RECURSIVE ScanScopes(_, _)
ScanScopes(node, paths) ==
    IF paths = <<>> THEN "accept"
    ELSE LET r == scan(NodeAt(node, Head(paths)).kids, 1, FALSE)
         IN IF r # "accept" THEN r ELSE ScanScopes(node, Tail(paths))

validate_javascript(node) ==
    LET scopes == child_nodes_of_class(node, <<>>, {"js-scope"})
    IN IF \E k \in 1..Len(scopes) : TrailingComma(NodeAt(node, scopes[k]))
       THEN "TrailingComma"
       ELSE ScanScopes(node, <<(<<>>)>> \o scopes)

CompileExceptions == {"MissingSemicolon", "TrailingComma"}

(***************************************************************************)
(* _minify_variable_names                                                  *)
(*                                                                         *)
(* symbol_table holds the entries [scope, name, var] of every scope's      *)
(* symbol_table dictionary, link_to the pairs [var, to] of the variables'  *)
(* __link_to, varnames the pairs [var, name] of their __varname and        *)
(* global_variable_names the pairs [var, name] of the names appended to    *)
(* that list, each with the variable it was appended for.                  *)
(***************************************************************************)
JS_KEYWORDS ==
    { "break", "catch", "const", "continue", "debugger", "default", "delete",
      "do", "else", "enum", "false", "finally", "for", "function", "gcase",
      "if", "new", "null", "return", "switch", "this", "throw", "true", "try",
      "typeof", "var", "void", "while", "with" }

Found(decls) == [err |-> "", decls |-> decls]

Raised(err) == [err |-> err, decls |-> <<>>]

\* JavascriptVariable.varname before any renaming: the lexed text.
varname(node) == JoinText(node.text)

\* lines 456-467: the indexes of the parameters, or the compile error.
RECURSIVE parameter_variables(_, _, _)
parameter_variables(params, k, need_comma) ==
    IF k > Len(params) THEN Found(<<>>)
    ELSE LET n == params[k]
         IN IF IsKind(n, "js-whitespace")
            THEN parameter_variables(params, k + 1, need_comma)
            ELSE IF IsKind(n, "js-varname")
            THEN LET rest == parameter_variables(params, k + 1, TRUE)
                 IN IF rest.err # "" THEN rest ELSE Found(<<k>> \o rest.decls)
            ELSE IF IsKind(n, "js-operator") /\ is_comma(n) /\ need_comma
            THEN parameter_variables(params, k + 1, FALSE)
            ELSE Raised("CompileException")

\* nodelist is children[index:], the list starting at the function keyword.
\* The result is the declarations [scope, var] in the order they are added.
find_variables_in_function_parameter_list(children, index, path) ==
    LET n == Len(children)
        a == SkipWhitespace(children, index + 1)
        b == IF a <= n /\ IsKind(children[a], "js-varname")
             THEN SkipWhitespace(children, a + 1) ELSE a
    IN IF b > n THEN Raised("IndexError")
       ELSE IF ~IsKind(children[b], "js-parentheses")
       THEN Raised("CompileException")
       ELSE LET variables == parameter_variables(children[b].kids, 1, FALSE)
                c == SkipWhitespace(children, b + 1)
            IN IF variables.err # "" THEN variables
               ELSE IF c > n THEN Raised("IndexError")
               ELSE IF IsKind(children[c], "js-scope")
               THEN Found([k \in 1..Len(variables.decls) |->
                             [scope |-> Append(path, c),
                              var |-> path \o <<b, variables.decls[k]>>]])
               ELSE Raised("CompileException")

\* Line 401 altered: the keyword is taken as declaring in the root too.
declares_everywhere(c, in_root_node) ==
    IsKind(c, "js-keyword") /\ keyword(c) \in {"function", "var"}

\* line 401
declares(c, in_root_node) ==
    /\ IsKind(c, "js-keyword") /\ keyword(c) \in {"function", "var"}
    /\ ~in_root_node

RECURSIVE find_variables(_, _, _, _, _, _)
find_variables(node, path, scope, in_root_node, index, next_is_variable) ==
    IF index > Len(node.kids) THEN Found(<<>>)
    ELSE
    LET c == node.kids[index]
        cpath == Append(path, index)
        first ==
            IF declares(c, in_root_node)
            THEN IF keyword(c) = "function"
                 THEN find_variables_in_function_parameter_list(node.kids, index, path)
                 ELSE Found(<<>>)
            ELSE IF IsKind(c, "js-varname") /\ next_is_variable
            THEN Found(<<[scope |-> scope, var |-> cpath]>>)
            ELSE IF IsKind(c, "js-scope")
            THEN find_variables(c, cpath, cpath, FALSE, 1, FALSE)
            ELSE IF IsKind(c, "js-whitespace") THEN Found(<<>>)
            ELSE IF IsKind(c, "js-parentheses") \/ IsKind(c, "js-square-brackets")
            THEN find_variables(c, cpath, scope, in_root_node, 1, FALSE)
            ELSE IF IsToken(c)
            THEN find_variables(c, cpath, scope, in_root_node, 1, FALSE)
            ELSE Found(<<>>)
        next == IF declares(c, in_root_node) THEN TRUE
                ELSE IF IsKind(c, "js-whitespace") THEN next_is_variable
                ELSE FALSE
    IN IF first.err # "" THEN first
       ELSE LET rest == find_variables(node, path, scope, in_root_node,
                                       index + 1, next)
            IN IF rest.err # "" THEN rest ELSE Found(first.decls \o rest.decls)

Declared(table, scope, name) ==
    { e \in table : e.scope = scope /\ e.name = name }

\* JavascriptVariable.link_to_variable
link_to_variable(links, var, variable) ==
    IF variable # var
    THEN { l \in links : l.var # var } \cup { [var |-> var, to |-> variable] }
    ELSE links

add_var_to_scope(st, tree, scope, var) ==
    LET name == varname(NodeAt(tree, var))
        same == Declared(st.table, scope, name)
    IN IF same # {}
       THEN [st EXCEPT !.links =
                link_to_variable(@, var, (CHOOSE e \in same : TRUE).var)]
       ELSE [st EXCEPT !.table =
                @ \cup { [scope |-> scope, name |-> name, var |-> var] }]

RECURSIVE add_vars_to_scopes(_, _, _)
add_vars_to_scopes(st, tree, decls) ==
    IF decls = <<>> THEN st
    ELSE add_vars_to_scopes(
             add_var_to_scope(st, tree, Head(decls).scope, Head(decls).var),
             tree, Tail(decls))

\* Line 498 altered: a variable after a dot is not skipped.
skips_after_dot_ignored(c) == FALSE

\* line 498: skip_next_var = (c.operator == '.')
skips_after(c) == operator(c) = "."

\* lines 503-515: skip_next_var once the neighbours of variable c are seen.
skip_variable(children, index, skip_next_var) ==
    LET key == /\ index + 1 <= Len(children)
               /\ IsKind(children[index + 1], "js-operator")
               /\ is_colon(children[index + 1])
        ternary == /\ index > 1
                   /\ IsKind(children[index - 1], "js-operator")
                   /\ operator(children[index - 1]) = "?"
    IN IF ternary THEN FALSE ELSE IF key THEN TRUE ELSE skip_next_var

\* lines 520-529: the innermost enclosing scope declaring the name, if any.
RECURSIVE lookup(_, _, _)
lookup(table, parent_scopes, name) ==
    IF parent_scopes = <<>> THEN {}
    ELSE IF Declared(table, Head(parent_scopes), name) # {}
         THEN Declared(table, Head(parent_scopes), name)
         ELSE lookup(table, Tail(parent_scopes), name)

RECURSIVE find_free_variables(_, _, _, _, _, _, _)
\* st is [links, globals]: the links made and the global names recorded.
find_free_variables(st, table, node, path, parent_scopes, index, skip_next_var) ==
    IF index > Len(node.kids) THEN st
    ELSE
    LET c == node.kids[index]
        cpath == Append(path, index)
        skip == IF IsKind(c, "js-operator") THEN skips_after(c)
                ELSE IF IsKind(c, "js-varname")
                THEN skip_variable(node.kids, index, skip_next_var)
                ELSE skip_next_var
        found == lookup(table, parent_scopes, varname(c))
        st1 == IF IsKind(c, "js-operator") THEN st
               ELSE IF IsKind(c, "js-varname")
               THEN IF skip THEN st
                    ELSE IF found # {}
                    THEN [st EXCEPT !.links =
                             link_to_variable(@, cpath,
                                              (CHOOSE e \in found : TRUE).var)]
                    ELSE [st EXCEPT !.globals =
                             @ \cup {[var |-> cpath, name |-> varname(c)]}]
               ELSE IF IsKind(c, "js-scope")
               THEN find_free_variables(st, table, c, cpath,
                                        <<cpath>> \o parent_scopes, 1, FALSE)
               ELSE IF IsToken(c)
               THEN find_free_variables(st, table, c, cpath, parent_scopes,
                                        1, FALSE)
               ELSE st
    IN find_free_variables(st1, table, node, path, parent_scopes, index + 1, skip)

\* string.lowercase
lowercase ==
    << "a", "b", "c", "d", "e", "f", "g", "h", "i", "j", "k", "l", "m",
       "n", "o", "p", "q", "r", "s", "t", "u", "v", "w", "x", "y", "z" >>

\* generate_varname.output
varname_output(c) == JoinText([i \in 1..Len(c) |-> lowercase[c[i] + 1]])

\* lines 550-556: the overflow detection, for i in range(0, len(c))
RECURSIVE overflow(_, _, _)
overflow(c, i, n) ==
    IF i > n THEN c
    ELSE IF c[i] = 26
         THEN IF i + 1 <= Len(c)
              THEN overflow([c EXCEPT ![i] = 0, ![i + 1] = @ + 1], i + 1, n)
              ELSE overflow(Append([c EXCEPT ![i] = 0], 0), i + 1, n)
         ELSE overflow(c, i + 1, n)

RECURSIVE next_varname(_, _)
next_varname(c, avoid_names) ==
    IF varname_output(c) \in avoid_names
    THEN next_varname(overflow([c EXCEPT ![1] = @ + 1], 1, Len(c)), avoid_names)
    ELSE varname_output(c)

generate_varname(avoid_names) == next_varname(<<0>>, avoid_names \cup JS_KEYWORDS)

\* Line 568 altered: the new name is not added to the names to avoid.
avoid_names_unchanged(avoid_names, new_name) == avoid_names

\* line 568: avoid_names = avoid_names + [ new_name ]
avoid_also(avoid_names, new_name) == avoid_names \cup {new_name}

\* lines 566-569 for the entries of one symbol table taken in the given order:
\* [names, avoid], the names given and the names to avoid afterwards.
RECURSIVE rename_entries(_, _, _)
rename_entries(order, k, st) ==
    IF k > Len(order) THEN st
    ELSE LET new_name == generate_varname(st.avoid)
         IN rename_entries(order, k + 1,
                [names |-> st.names \cup {[var |-> order[k].var, name |-> new_name]},
                 avoid |-> avoid_also(st.avoid, new_name)])

\* The orders in which a dictionary may hand out its entries.
Orders(entries) ==
    { f \in [1..Cardinality(entries) -> entries] :
        \A i, j \in 1..Cardinality(entries) : f[i] = f[j] => i = j }

RECURSIVE rename_variables(_, _, _, _)
RECURSIVE rename_children(_, _, _, _, _)
\* The sets of pairs [var, name] that renaming the node's subtree may give.
rename_variables(table, node, path, avoid_names) ==
    UNION { LET st == rename_entries(order, 1, [names |-> {}, avoid |-> avoid_names])
            IN { st.names \cup below :
                   below \in rename_children(table, node, path, st.avoid, 1) }
            : order \in Orders({ e \in table : e.scope = path }) }

rename_children(table, node, path, avoid_names, index) ==
    IF index > Len(node.kids) THEN { {} }
    ELSE { here \cup rest :
             here \in (IF IsToken(node.kids[index])
                       THEN rename_variables(table, node.kids[index],
                                             Append(path, index), avoid_names)
                       ELSE { {} }),
             rest \in rename_children(table, node, path, avoid_names, index + 1) }

(***************************************************************************)
(* Token.output and its overrides: the text a node renders.                *)
(***************************************************************************)
RECURSIVE Replace(_, _, _)
\* str.replace(old, new) on a list of pieces; new is a list of pieces.
Replace(pieces, old, new) ==
    IF pieces = <<>> THEN <<>>
    ELSE (IF Head(pieces) = old THEN new ELSE <<Head(pieces)>>)
         \o Replace(Tail(pieces), old, new)

RECURSIVE output(_, _, _, _, _)
RECURSIVE output_children(_, _, _, _, _, _)
output(tree, node, path, names, links) ==
    LET named == { e \in names : e.var = path }
        linked == { l \in links : l.var = path }
        inner == JoinText(node.text)
                 \o output_children(tree, node, path, names, links, 1)
    IN IF IsKind(node, "js-scope") THEN "{" \o inner \o "}"
       ELSE IF IsKind(node, "js-parentheses") THEN "(" \o inner \o ")"
       ELSE IF IsKind(node, "js-square-brackets") THEN "[" \o inner \o "]"
       ELSE IF IsKind(node, "js-varname")
       THEN IF named # {} THEN (CHOOSE e \in named : TRUE).name
            ELSE IF linked # {}
            THEN LET to == (CHOOSE l \in linked : TRUE).to
                 IN output(tree, NodeAt(tree, to), to, names, links)
            ELSE inner
       ELSE IF IsKind(node, "js-double-quoted-string")
       THEN "\"" \o JoinText(Replace(node.text, "\"", <<"\\", "\"">>)) \o "\""
       ELSE IF IsKind(node, "js-single-quoted-string")
       THEN "'" \o JoinText(Replace(node.text, "'", <<"\\", "'">>)) \o "'"
       ELSE inner

output_children(tree, node, path, names, links, index) ==
    IF index > Len(node.kids) THEN ""
    ELSE output(tree, node.kids[index], Append(path, index), names, links)
         \o output_children(tree, node, path, names, links, index + 1)

output_as_string(tree, names, links) == output(tree, tree, <<>>, names, links)

\* _minify_variable_names up to the end of find_free_variables.
resolved(tree) ==
    LET found == find_variables(tree, <<>>, <<>>, TRUE, 1, FALSE)
        declared == add_vars_to_scopes([table |-> {}, links |-> {}], tree,
                                       found.decls)
        free == find_free_variables([links |-> declared.links, globals |-> {}],
                                    declared.table, tree, <<>>, <<>>, 1, FALSE)
    IN [err |-> found.err, table |-> declared.table, links |-> free.links,
        globals |-> free.globals]

\* Line 575 altered: the renaming starts with no name to avoid.
avoided_nothing(globals) == {}

\* line 575: global_variable_names[:], the names the renaming starts with
avoided(globals) == { g.name : g \in globals }

(***************************************************************************)
(* _process_gettext                                                        *)
(***************************************************************************)
contains_django_tags(node) ==
    child_nodes_of_class(node, <<>>, {"django-tag"}) # <<>>

IsJavascriptString(n) ==
    n.kind \in {"js-double-quoted-string", "js-single-quoted-string"}

RECURSIVE gettext_body(_, _)
\* lines 765-773: the pieces of the strings in the call, or the compile error.
gettext_body(children, k) ==
    IF k > Len(children) THEN [err |-> "", body |-> <<>>]
    ELSE LET node == children[k]
             rest == gettext_body(children, k + 1)
         IN IF IsKind(node, "js-operator") /\ operator(node) = "+" THEN rest
            ELSE IF IsJavascriptString(node)
            THEN [rest EXCEPT !.body = node.text \o @]
            ELSE [err |-> "CompileException", body |-> <<>>]

\* lines 124-139 called by one compiling unit: st holds the dictionary
\* `translations` and the count of catalog loads.
translate_js(st, lang) ==
    IF st.translations[lang] = 0
    THEN [st EXCEPT !.loads[lang] = @ + 1,
                    !.translations[lang] = st.loads[lang] + 1]
    ELSE st

RemoveAt(seq, j) == SubSeq(seq, 1, j - 1) \o SubSeq(seq, j + 1, Len(seq))

RECURSIVE scan_gettext(_, _, _, _)
\* lines 747-790 for the children of one scope; st is [err, remembered,
\* translations, loads] and the result adds the children as rewritten.
scan_gettext(nodes, i, lang, st) ==
    IF i > Len(nodes) \/ st.err # "" THEN [st |-> st, nodes |-> nodes]
    ELSE IF ~(IsKind(nodes[i], "js-varname") /\ varname(nodes[i]) = "gettext")
    THEN scan_gettext(nodes, i + 1, lang, st)
    ELSE LET j == SkipWhitespace(nodes, i + 1)
         IN IF j > Len(nodes)
            THEN scan_gettext(nodes, i + 1, lang, st)
            ELSE IF ~(IsKind(nodes[j], "js-parentheses")
                      /\ ~contains_django_tags(nodes[j]))
            THEN scan_gettext(nodes, i + 1, lang, st)
            ELSE LET read == gettext_body(nodes[j].kids, 1)
                     translation == LoadedTranslation(lang, read.body)
                     string_node ==
                         Tok("js-double-quoted-string",
                             Replace(translation, "\"", <<"\\", "\"">>))
                 IN IF read.err # ""
                    THEN [st |-> [st EXCEPT !.err = read.err], nodes |-> nodes]
                    ELSE scan_gettext(
                             RemoveAt([nodes EXCEPT ![i] = string_node], j),
                             i + 1, lang,
                             [translate_js(st, lang) EXCEPT !.remembered =
                                  Append(@, JoinText(read.body))])

Scanned(node) ==
    node.kind \in {"js-scope", "js-square-brackets", "js-parentheses"}

RECURSIVE process_gettext(_, _, _)
RECURSIVE process_gettext_children(_, _, _, _)
\* The node with its descendant scopes rewritten, in the order of
\* child_nodes_of_class: a scope before the scopes inside it.
process_gettext(node, lang, st) ==
    LET own == IF Scanned(node) THEN scan_gettext(node.kids, 1, lang, st)
               ELSE [st |-> st, nodes |-> node.kids]
        below == process_gettext_children(own.nodes, 1, lang, own.st)
    IN [st |-> below.st, node |-> [node EXCEPT !.kids = below.nodes]]

process_gettext_children(nodes, i, lang, st) ==
    IF i > Len(nodes) \/ st.err # "" THEN [st |-> st, nodes |-> nodes]
    ELSE LET c == process_gettext(nodes[i], lang, st)
         IN process_gettext_children([nodes EXCEPT ![i] = c.node], i + 1,
                                     lang, c.st)

(***************************************************************************)
(* fix_whitespace_bug                                                      *)
(***************************************************************************)
RECURSIVE renders_brace_first(_)
\* output_as_string()[0:1] == '{'
renders_brace_first(node) ==
    IF node.kind \in {"js-scope", "django-tag"} THEN TRUE
    ELSE IF node.kind \in {"js-parentheses", "js-square-brackets", "js-varname",
                           "js-double-quoted-string", "js-single-quoted-string"}
    THEN FALSE
    ELSE IF node.text # <<>> THEN Head(node.text) = "{"
    ELSE IF node.kids # <<>> THEN renders_brace_first(node.kids[1])
    ELSE FALSE

\* line 588
needs_space(node) ==
    /\ IsKind(node, "js-scope")
    /\ node.kids # <<>>
    /\ renders_brace_first(node.kids[1])

RECURSIVE fix_whitespace_bug(_)
fix_whitespace_bug(node) ==
    LET fixed == [i \in 1..Len(node.kids) |-> fix_whitespace_bug(node.kids[i])]
    IN [node EXCEPT !.kids =
           IF needs_space(node)
           THEN <<Tok("required-whitespace", <<" ">>)>> \o fixed ELSE fixed]

RECURSIVE moved(_, _)
\* The path, after fix_whitespace_bug, of the node that was at the path.
moved(node, path) ==
    IF path = <<>> THEN <<>>
    ELSE <<Head(path) + (IF needs_space(node) THEN 1 ELSE 0)>>
         \o moved(node.kids[Head(path)], Tail(path))

(***************************************************************************)
(* tokenize: the tree of the token stream, each token of the class that    *)
(* _add_javascript_parser_extensions gives it.                             *)
(***************************************************************************)
RECURSIVE token_tree(_, _)
\* [kids, next]: the siblings from the k-th entry up to the end of the
\* enclosing group, and the entry after that end.
token_tree(tokens, k) ==
    IF k > Len(tokens) THEN [kids |-> <<>>, next |-> k]
    ELSE IF tokens[k].stop THEN [kids |-> <<>>, next |-> k + 1]
    ELSE IF tokens[k].name \in GroupNames
    THEN LET inner == token_tree(tokens, k + 1)
             rest == token_tree(tokens, inner.next)
         IN [kids |-> <<Grp(tokens[k].name, inner.kids)>> \o rest.kids,
             next |-> rest.next]
    ELSE LET rest == token_tree(tokens, k + 1)
         IN [kids |-> <<Tok(tokens[k].name, tokens[k].text)>> \o rest.kids,
             next |-> rest.next]

(***************************************************************************)
(* The statement validator run on every short list of children, as the     *)
(* children of the root or of a scope inside it.                           *)
(***************************************************************************)
ValidatorTokens ==
    { JavascriptKeyword("function"), JavascriptKeyword("var"),
      JavascriptKeyword("if"), JavascriptKeyword("return"),
      JavascriptVariable("x"), JavascriptNumber("1"),
      JavascriptOperator(<<";">>), JavascriptOperator(<<" ", "=", " ">>),
      JavascriptOperator(<<",">>),
      JavascriptParentheses(<<>>), JavascriptScope(<<>>),
      JavascriptWhiteSpace(<<"\n">>), DjangoTag }

SeqsUpTo(S, n) == UNION { [1..k -> S] : k \in 0..n }

\* var x=1;var y=2;
VarTerminated ==
    Root(<< JavascriptKeyword("var"), JavascriptWhiteSpace(<<" ">>),
            JavascriptVariable("x"), JavascriptOperator(<<"=">>),
            JavascriptNumber("1"), JavascriptOperator(<<";">>),
            JavascriptKeyword("var"), JavascriptWhiteSpace(<<" ">>),
            JavascriptVariable("y"), JavascriptOperator(<<"=">>),
            JavascriptNumber("2"), JavascriptOperator(<<";">>) >>)

\* var x=1\nvar y=2;
VarUnterminated ==
    Root(<< JavascriptKeyword("var"), JavascriptWhiteSpace(<<" ">>),
            JavascriptVariable("x"), JavascriptOperator(<<"=">>),
            JavascriptNumber("1"), JavascriptWhiteSpace(<<"\n">>),
            JavascriptKeyword("var"), JavascriptWhiteSpace(<<" ">>),
            JavascriptVariable("y"), JavascriptOperator(<<"=">>),
            JavascriptNumber("2"), JavascriptOperator(<<";">>) >>)

\* x 1
VariableNumber ==
    << JavascriptVariable("x"), JavascriptWhiteSpace(<<" ">>),
       JavascriptNumber("1") >>

\* 1 x
NumberVariable ==
    << JavascriptNumber("1"), JavascriptWhiteSpace(<<" ">>),
       JavascriptVariable("x") >>

\* 1 2
NumberNumber ==
    << JavascriptNumber("1"), JavascriptWhiteSpace(<<" ">>),
       JavascriptNumber("2") >>

IdleLexer == string = <<>> /\ lexer = LexerStart

IdleGettext == language = "en" /\ remembered = <<>>

IdleMinify ==
    /\ symbol_table = {}
    /\ link_to = {}
    /\ varnames = {}
    /\ global_variable_names = {}
    /\ numeral = <<>>

IdleCache ==
    /\ translations = [l \in Languages |-> 0]
    /\ loads = [l \in Languages |-> 0]
    /\ threads = [t \in Threads |-> IdleThread]

InitValidate ==
    /\ pc = "validate"
    /\ outcome = "none"
    /\ IdleLexer
    /\ IdleCache
    /\ IdleGettext
    /\ IdleMinify
    /\ \/ \E children \in SeqsUpTo(ValidatorTokens, MaxChildren) :
             \/ js_node = Root(children)
             \/ js_node = Root(<<JavascriptScope(children)>>)
       \/ js_node \in {VarTerminated, VarUnterminated}
       \/ \E children \in {VariableNumber, NumberVariable, NumberNumber} :
             js_node \in { Root(children), Root(<<JavascriptScope(children)>>) }

Validate ==
    /\ pc = "validate"
    /\ outcome' = validate_javascript(js_node)
    /\ pc' = "validated"
    /\ UNCHANGED <<js_node, lexVars, cacheVars, gettextVars, minifyVars>>

SpecValidate == InitValidate /\ [][Validate]_vars

\* The child lists the validator scans: the root's and every scope's.
ScannedLists(node) ==
    LET scopes == child_nodes_of_class(node, <<>>, {"js-scope"})
    IN { node.kids } \cup { NodeAt(node, scopes[k]).kids : k \in 1..Len(scopes) }

\* The last non-whitespace child strictly before position i, 0 when none.
PrevSignificant(children, i) ==
    LET S == { j \in 1..(i - 1) : ~IsKind(children[j], "js-whitespace") }
    IN IF S = {} THEN 0 ELSE CHOOSE j \in S : \A k \in S : k <= j

IsVarKeyword(n) == IsKind(n, "js-keyword") /\ keyword(n) = "var"

UnterminatedVar(children, i) ==
    /\ IsVarKeyword(children[i])
    /\ PrevSignificant(children, i) # 0
    /\ ~VarPredecessorAllowed(children[PrevSignificant(children, i)])

C10_AcceptOrCompileException ==
    pc = "validated" => outcome \in {"accept"} \cup CompileExceptions

\* The one list of children scanned besides the root's own, when the root
\* holds a single scope; the root's list otherwise.
StatementList(node) ==
    IF Len(node.kids) = 1 /\ IsKind(node.kids[1], "js-scope")
    THEN node.kids[1].kids ELSE node.kids

OnlyOperands(children) ==
    \A i \in 1..Len(children) :
        children[i].kind \in {"js-varname", "js-number", "js-whitespace"}

CountOfKinds(children, kinds) ==
    Cardinality({ i \in 1..Len(children) : children[i].kind \in kinds })

\* C11 as stated: a Number child of a scope is treated as a Variable child is
\* (the error is raised when the pending flag is set, the flag is set
\* otherwise), so a list of Variables, Numbers and whitespace is rejected
\* exactly when it holds two of them, and `x 1`, `1 x`, `1 2` are rejected.
C11_NumberLikeVariable ==
    (pc = "validated" /\ OnlyOperands(StatementList(js_node))) =>
        /\ outcome = "MissingSemicolon" <=>
               CountOfKinds(StatementList(js_node),
                            {"js-varname", "js-number"}) >= 2
        /\ StatementList(js_node) \in {VariableNumber, NumberVariable, NumberNumber}
               => outcome = "MissingSemicolon"

\* C11 amended: a Number child neither tests nor sets the pending flag, so a
\* list of Variables, Numbers and whitespace is rejected exactly when it
\* holds two Variables and accepted otherwise; `x 1`, `1 x` and `1 2` are
\* accepted.
C11_NumberIgnored ==
    (pc = "validated" /\ OnlyOperands(StatementList(js_node))) =>
        /\ outcome = "MissingSemicolon" <=>
               CountOfKinds(StatementList(js_node), {"js-varname"}) >= 2
        /\ outcome \in {"accept", "MissingSemicolon"}
        /\ StatementList(js_node) \in {VariableNumber, NumberVariable, NumberNumber}
               => outcome = "accept"

\* The scope {x 1} validated, and accepted.
C11_Witness ==
    /\ pc = "validated"
    /\ js_node = Root(<<JavascriptScope(VariableNumber)>>)
    /\ outcome = "accept"

(***************************************************************************)
(* The lexer run on every short input over a small alphabet, and on the    *)
(* two inputs a/b/g and x = /ab+c/g;                                       *)
(***************************************************************************)
LexAlphabet == { "i", "f", "1", "/", " ", "=", "(", ")" }

ExampleDivision == << "a", "/", "b", "/", "g" >>

ExampleRegex == << "x", " ", "=", " ", "/", "a", "b", "+", "c", "/", "g", ";" >>

InitLex ==
    /\ pc = "tokenize"
    /\ outcome = "none"
    /\ js_node = Root(<<>>)
    /\ \/ string \in SeqsUpTo(LexAlphabet, MaxLexInput)
       \/ string \in { ExampleDivision, ExampleRegex }
    /\ lexer = LexerStart
    /\ IdleCache
    /\ IdleGettext
    /\ IdleMinify

Lexed == lexer.position > Len(string) \/ lexer.error # ""

Tokenize ==
    /\ pc = "tokenize"
    /\ ~Lexed
    /\ lexer' = tokenize_step(string, lexer)
    /\ UNCHANGED <<treeVars, string, cacheVars, gettextVars, minifyVars>>

SpecLex == InitLex /\ [][Tokenize]_vars

IsDivision(t) == t.name = "js-operator" /\ ~t.stop /\ Strip(t.text) = <<"/">>

IsRegexObject(t) == t.name = "js-regex-object"

\* The last token before the k-th that is not whitespace, 0 when none.
PrevSignificantToken(tokens, k) ==
    LET S == { j \in 1..(k - 1) : tokens[j].name # "js-whitespace" }
    IN IF S = {} THEN 0 ELSE CHOOSE j \in S : \A h \in S : h <= j

\* An identifier, a number or a closing ) or ].
EndsOperand(t) ==
    \/ ~t.stop /\ t.name \in {"js-varname", "js-number"}
    \/ t.stop /\ t.name \in {"js-parentheses", "js-square-brackets"}

TokenTexts == [k \in 1..Len(lexer.tokens) |->
                  <<lexer.tokens[k].name, JoinText(lexer.tokens[k].text)>>]

\* C7: a `/` that starts no comment is a division operator exactly when the
\* token before it (whitespace aside) is an identifier, a number or a closing
\* ) or ]; after any other token, a division operator included, and at the
\* start of the input it starts a regex literal.  a/b/g gives two division
\* operators and x = /ab+c/g; gives the one regex token /ab+c/g.
C7_SlashDisambiguation ==
    /\ \A k \in 1..Len(lexer.tokens) :
          LET j == PrevSignificantToken(lexer.tokens, k)
          IN /\ IsDivision(lexer.tokens[k]) =>
                    j # 0 /\ EndsOperand(lexer.tokens[j])
             /\ IsRegexObject(lexer.tokens[k]) =>
                    j = 0 \/ ~EndsOperand(lexer.tokens[j])
    /\ (string = ExampleDivision /\ Lexed) =>
          TokenTexts = << <<"js-varname", "a">>, <<"js-operator", "/">>,
                          <<"js-varname", "b">>, <<"js-operator", "/">>,
                          <<"js-varname", "g">> >>
    /\ (string = ExampleRegex /\ Lexed) =>
          TokenTexts = << <<"js-varname", "x">>, <<"js-operator", " = ">>,
                          <<"js-regex-object", "/ab+c/g">>,
                          <<"js-operator", ";">> >>

(***************************************************************************)
(* Several compiling units calling translate_js concurrently.              *)
(***************************************************************************)
InitCache ==
    /\ pc = "translate"
    /\ outcome = "none"
    /\ js_node = Root(<<>>)
    /\ IdleLexer
    /\ IdleCache
    /\ IdleGettext
    /\ IdleMinify

GetLanguage == \E t \in Threads : \E lang \in Languages : get_language(t, lang)

TestCached == \E t \in Threads : test_cached(t)

LoadCatalog == \E t \in Threads : load_catalog(t)

StoreTranslation == \E t \in Threads : store_translation(t)

ReturnTranslation == \E t \in Threads : return_translation(t)

NextCache ==
    /\ \/ GetLanguage
       \/ TestCached
       \/ LoadCatalog
       \/ StoreTranslation
       \/ ReturnTranslation
    /\ UNCHANGED <<treeVars, lexVars, gettextVars, minifyVars>>

SpecCache == InitCache /\ [][NextCache]_vars

\* C8: with concurrent callers the catalog of a language is loaded at most
\* once, no caller reads a missing entry, and an entry once cached is never
\* replaced or removed.
C8_GuardedLazyLoad ==
    /\ [](\A l \in Languages : loads[l] <= 1)
    /\ [](\A t \in Threads : threads[t].pc = "return" =>
                                 translations[threads[t].lang] # 0)
    /\ [][\A l \in Languages :
             translations[l] # 0 => translations'[l] = translations[l]]_vars

(***************************************************************************)
(* The whitespace compressor applied, and applied again, to every small    *)
(* tree of whitespace, operators and scopes.                               *)
(***************************************************************************)
CompressLeaves ==
    { JavascriptWhiteSpace(<<"\n", " ">>),
      JavascriptOperator(<<" ", "in", " ">>),
      JavascriptOperator(<<" ", "=">>) }

CompressTokens ==
    CompressLeaves
    \cup { JavascriptScope(kids) : kids \in SeqsUpTo(CompressLeaves, MaxCompressKids) }

InitCompress ==
    /\ pc = "compress"
    /\ outcome = "none"
    /\ js_node \in { Root(kids) : kids \in SeqsUpTo(CompressTokens, MaxCompressKids) }
    /\ IdleLexer
    /\ IdleCache
    /\ IdleGettext
    /\ IdleMinify

Compress ==
    /\ pc \in {"compress", "compressed"}
    /\ js_node' = compress_javascript_whitespace(js_node)
    /\ pc' = IF pc = "compress" THEN "compressed" ELSE "recompressed"
    /\ UNCHANGED <<outcome, lexVars, cacheVars, gettextVars, minifyVars>>

SpecCompress == InitCompress /\ [][Compress]_vars

\* C9: whitespace compression is idempotent: compressing a tree that was
\* compressed already leaves every token's content, and so the tree and its
\* rendered text, as it is.
C9_CompressIdempotent ==
    [][pc = "compressed" => js_node' = js_node]_vars

RECURSIVE HasToken(_, _)
HasToken(node, t) ==
    \E i \in 1..Len(node.kids) : node.kids[i] = t \/ HasToken(node.kids[i], t)

\* Compressed twice: a tree holding an `in` operator with its spaces kept, a
\* trimmed operator and an emptied leading whitespace token.
C9_Witness ==
    /\ pc = "recompressed"
    /\ HasToken(js_node, JavascriptOperator(<<" ", "in", " ">>))
    /\ HasToken(js_node, JavascriptOperator(<<"=">>))
    /\ js_node.kids[1] = JavascriptWhiteSpace(<<"">>)

\* C12: the trim of leading and trailing whitespace applies to the root
\* only: after compression a Whitespace token that is the first or last
\* child of the root is emptied, and every other Whitespace token, the first
\* or last child of a nested node included, holds a single space.
C12_TrimRootOnly ==
    pc = "compressed" =>
        \A p \in Range(child_nodes_of_class(js_node, <<>>, {"js-whitespace"})) :
            NodeAt(js_node, p).text =
                IF Len(p) = 1 /\ p[1] \in {1, Len(js_node.kids)}
                THEN <<"">> ELSE <<" ">>

(***************************************************************************)
(* The renamer run pass by pass on every small forest of declarations,     *)
(* references and scopes, and on two larger trees.                         *)
(***************************************************************************)
MinifyUnits ==
    { << JavascriptKeyword("var"), JavascriptWhiteSpace(<<" ">>),
         JavascriptVariable("x") >>,
      << JavascriptVariable("x") >>,
      << JavascriptVariable("a") >>,
      << JavascriptOperator(<<".">>), JavascriptVariable("x") >>,
      << JavascriptOperator(<<":">>) >>,
      << JavascriptKeyword("function"), JavascriptWhiteSpace(<<" ">>),
         JavascriptVariable("x"),
         JavascriptParentheses(<< JavascriptVariable("x"),
                                  JavascriptOperator(<<",">>),
                                  JavascriptVariable("y") >>) >>,
      << JavascriptParentheses(<< JavascriptKeyword("var"),
                                  JavascriptWhiteSpace(<<" ">>),
                                  JavascriptVariable("x") >>) >> }

RECURSIVE Forest(_)
\* The child lists made of at most n units and scopes.
Forest(n) ==
    IF n = 0 THEN { <<>> }
    ELSE { <<>> }
         \cup { u \o rest : u \in MinifyUnits, rest \in Forest(n - 1) }
         \cup UNION { { <<JavascriptScope(inner)>> \o rest :
                          inner \in Forest(k), rest \in Forest(n - 1 - k) }
                      : k \in 0..(n - 1) }

\* a{var x;var y;function f(x,z){var w;{var x=y}}}
NestedScopes ==
    Root(<< JavascriptVariable("a"),
            JavascriptScope(<<
              JavascriptKeyword("var"), JavascriptWhiteSpace(<<" ">>),
              JavascriptVariable("x"), JavascriptOperator(<<";">>),
              JavascriptKeyword("var"), JavascriptWhiteSpace(<<" ">>),
              JavascriptVariable("y"), JavascriptOperator(<<";">>),
              JavascriptKeyword("function"), JavascriptWhiteSpace(<<" ">>),
              JavascriptVariable("f"),
              JavascriptParentheses(<< JavascriptVariable("x"),
                                       JavascriptOperator(<<",">>),
                                       JavascriptVariable("z") >>),
              JavascriptScope(<<
                JavascriptKeyword("var"), JavascriptWhiteSpace(<<" ">>),
                JavascriptVariable("w"), JavascriptOperator(<<";">>),
                JavascriptScope(<<
                  JavascriptKeyword("var"), JavascriptWhiteSpace(<<" ">>),
                  JavascriptVariable("x"), JavascriptOperator(<<"=">>),
                  JavascriptVariable("y") >>) >>) >>) >>)

\* [function x]{(var x)x}
RootBrackets ==
    Root(<< JavascriptSquareBrackets(<< JavascriptKeyword("function"),
                                        JavascriptWhiteSpace(<<" ">>),
                                        JavascriptVariable("x") >>),
            JavascriptScope(<<
              JavascriptParentheses(<< JavascriptKeyword("var"),
                                       JavascriptWhiteSpace(<<" ">>),
                                       JavascriptVariable("x") >>),
              JavascriptVariable("x") >>) >>)

\* {var x;x.x:x}
DottedKey ==
    Root(<< JavascriptScope(<<
              JavascriptKeyword("var"), JavascriptWhiteSpace(<<" ">>),
              JavascriptVariable("x"), JavascriptOperator(<<";">>),
              JavascriptVariable("x"), JavascriptOperator(<<".">>),
              JavascriptVariable("x"), JavascriptOperator(<<":">>),
              JavascriptVariable("x") >>) >>)

\* The children a parameter group is tried with.
ParameterTokens ==
    { JavascriptVariable("x"), JavascriptVariable("y"),
      JavascriptOperator(<<",">>), JavascriptOperator(<<"=">>),
      JavascriptWhiteSpace(<<" ">>) }

ParameterLists == SeqsUpTo(ParameterTokens, MaxParameters)

\* function(<params>){y} as the children of the document root, or {function(<params>){y}}
FunctionWith(params, nested) ==
    LET function == << JavascriptKeyword("function"),
                       JavascriptParentheses(params),
                       JavascriptScope(<< JavascriptVariable("y") >>) >>
    IN IF nested THEN Root(<< JavascriptScope(function) >>) ELSE Root(function)

InitMinify ==
    /\ pc = "find_variables"
    /\ outcome = "none"
    /\ \/ js_node \in { Root(children) : children \in Forest(MaxUnits) }
       \/ js_node \in { NestedScopes, RootBrackets, DottedKey }
       \/ js_node \in { FunctionWith(params, nested) :
                           params \in ParameterLists, nested \in BOOLEAN }
    /\ IdleLexer
    /\ IdleCache
    /\ IdleGettext
    /\ IdleMinify

FindVariables ==
    /\ pc = "find_variables"
    /\ LET found == find_variables(js_node, <<>>, <<>>, TRUE, 1, FALSE)
           st == add_vars_to_scopes([table |-> {}, links |-> {}], js_node,
                                    found.decls)
       IN /\ outcome' = IF found.err = "" THEN outcome ELSE found.err
          /\ pc' = IF found.err = "" THEN "find_free_variables" ELSE "raised"
          /\ symbol_table' = st.table
          /\ link_to' = st.links
    /\ UNCHANGED <<js_node, varnames, global_variable_names, numeral, lexVars,
                   cacheVars, gettextVars>>

FindFreeVariables ==
    /\ pc = "find_free_variables"
    /\ LET st == find_free_variables([links |-> link_to, globals |-> {}],
                                     symbol_table, js_node, <<>>, <<>>, 1, FALSE)
       IN /\ link_to' = st.links
          /\ global_variable_names' = st.globals
    /\ pc' = "rename_variables"
    /\ UNCHANGED <<js_node, outcome, symbol_table, varnames, numeral, lexVars,
                   cacheVars, gettextVars>>

RenameVariables ==
    /\ pc = "rename_variables"
    /\ varnames' \in rename_variables(symbol_table, js_node, <<>>,
                                      avoided(global_variable_names))
    /\ pc' = "minified"
    /\ UNCHANGED <<js_node, outcome, symbol_table, link_to,
                   global_variable_names, numeral, lexVars, cacheVars,
                   gettextVars>>

NextMinify == FindVariables \/ FindFreeVariables \/ RenameVariables

SpecMinify == InitMinify /\ [][NextMinify]_vars

Variables(tree) == Range(child_nodes_of_class(tree, <<>>, {"js-varname"}))

Parent(path) == SubSeq(path, 1, Len(path) - 1)

IsPrefix(p, q) == Len(p) <= Len(q) /\ SubSeq(q, 1, Len(p)) = p

\* No enclosing node of the path is a Scope.
InDocumentRoot(tree, path) ==
    \A k \in 0..(Len(path) - 1) :
        ~IsKind(NodeAt(tree, SubSeq(path, 1, k)), "js-scope")

FollowsDeclaringKeyword(tree, path) ==
    LET children == NodeAt(tree, Parent(path)).kids
        j == PrevSignificant(children, Last(path))
    IN /\ j # 0
       /\ IsKind(children[j], "js-keyword")
       /\ keyword(children[j]) \in {"var", "function"}

FollowsDot(tree, path) ==
    LET children == NodeAt(tree, Parent(path)).kids
    IN /\ Last(path) > 1
       /\ IsKind(children[Last(path) - 1], "js-operator")
       /\ operator(children[Last(path) - 1]) = "."

RendersLexedText(path) ==
    output(js_node, NodeAt(js_node, path), path, varnames, link_to)
        = JoinText(NodeAt(js_node, path).text)

\* C3: a Variable that follows a `var` or `function` keyword in the document
\* root, directly or inside Parentheses or SquareBrackets that lie in no
\* Scope, is never entered into a symbol table and never given a replacement
\* name: after the renamer has run it renders its lexed text.
C3_RootDeclarationsKept ==
    \A v \in Variables(js_node) :
           (InDocumentRoot(js_node, v) /\ FollowsDeclaringKeyword(js_node, v)) =>
              /\ \A e \in symbol_table : e.var # v
              /\ \A e \in varnames : e.var # v
              /\ pc = "minified" => RendersLexedText(v)

\* var x{var x}: the declaration in the scope is renamed, the root's is kept.
C3_Witness ==
    /\ pc = "minified"
    /\ js_node.kids = << JavascriptKeyword("var"), JavascriptWhiteSpace(<<" ">>),
                         JavascriptVariable("x"),
                         JavascriptScope(<< JavascriptKeyword("var"),
                                            JavascriptWhiteSpace(<<" ">>),
                                            JavascriptVariable("x") >>) >>
    /\ output_as_string(js_node, varnames, link_to) = "var x{var a}"

AssignedName(var) == { e.name : e \in { n \in varnames : n.var = var } }

\* C4: after the names are assigned, the names given to the symbol-table
\* entries of a Scope and of all the Scopes enclosing it are pairwise
\* distinct, and every entry has been given one.
C4_DistinctAlongScopeChain ==
    pc = "minified" =>
        /\ \A e \in symbol_table : Cardinality(AssignedName(e.var)) = 1
        /\ \A e1, e2 \in symbol_table :
              (e1 # e2 /\ IsPrefix(e1.scope, e2.scope)) =>
                  AssignedName(e1.var) # AssignedName(e2.var)

\* Three scopes in a chain holding three, three and one entries, with the
\* free names a and z: seven names are given, none of them a or z.
C4_Witness ==
    /\ pc = "minified"
    /\ js_node = NestedScopes
    /\ Cardinality(symbol_table) = 7
    /\ Cardinality({ e.name : e \in varnames }) = 7
    /\ avoided(global_variable_names) = {"a", "z"}
    /\ \A e \in varnames : e.name \notin {"a", "z"}

\* C5: a Variable whose immediately preceding sibling is the `.` operator is
\* never linked to a declaration and never recorded as a free name, in any
\* scope and whatever follows it, a `:` included; after the renaming it
\* renders its lexed text.
C5_AfterDotUntouched ==
    \A v \in Variables(js_node) :
           FollowsDot(js_node, v) =>
              /\ \A l \in link_to : l.var # v
              /\ \A g \in global_variable_names : g.var # v
              /\ \A e \in symbol_table : e.var # v
              /\ pc = "minified" => RendersLexedText(v)

\* {var x;x.x:x} renders {var a;a.x:a}
C5_Witness ==
    /\ pc = "minified"
    /\ js_node = DottedKey
    /\ output_as_string(js_node, varnames, link_to) = "{var a;a.x:a}"

\* C16: after both resolver passes every link leads to a declaration stored in
\* some Scope's symbol table, never to the linked Variable itself, and the
\* target holds no link of its own (one hop, no cycle), also for a function
\* parameter or a repeated declaration whose name is declared in an enclosing
\* scope as well.
C16_LinksAreOneHop ==
    pc \in {"rename_variables", "minified"} =>
        \A l \in link_to :
            /\ \E e \in symbol_table : e.var = l.to
            /\ l.to # l.var
            /\ ~\E t \in link_to : t.var = l.to

\* C17: the free (global) names are all recorded before any name is assigned,
\* and no name that is assigned equals a name recorded as free.
C17_NoGlobalNameAssigned ==
    /\ pc \in {"find_variables", "find_free_variables", "rename_variables",
               "raised"} => varnames = {}
    /\ pc \in {"rename_variables", "minified"} =>
           global_variable_names = resolved(js_node).globals
    /\ pc = "minified" =>
           \A e \in varnames :
               e.name \notin { g.name : g \in global_variable_names }

\* a{var x}: the free name a is recorded and the declaration is given b.
C17_Witness ==
    /\ pc = "minified"
    /\ js_node = Root(<< JavascriptVariable("a"),
                         JavascriptScope(<< JavascriptKeyword("var"),
                                            JavascriptWhiteSpace(<<" ">>),
                                            JavascriptVariable("x") >>) >>)
    /\ { g.name : g \in global_variable_names } = {"a"}
    /\ { e.name : e \in varnames } = {"b"}
    /\ output_as_string(js_node, varnames, link_to) = "a{var b}"

\* The list without its whitespace tokens.
Significant(children) == SelectSeq(children, LAMBDA n : ~IsKind(n, "js-whitespace"))

\* Zero or more Variables with exactly one comma between consecutive ones.
CommaSeparatedVariables(children) ==
    LET s == Significant(children)
    IN \/ s = <<>>
       \/ /\ Len(s) % 2 = 1
          /\ \A k \in 1..Len(s) :
                IF k % 2 = 1 THEN IsKind(s[k], "js-varname")
                ELSE IsKind(s[k], "js-operator") /\ is_comma(s[k])

\* C15: for a `function` keyword followed by a parameter group, at the document
\* root or nested, resolving raises the malformed-parameter-list error unless
\* the group's children are, whitespace ignored, zero or more Variables with
\* exactly one comma between consecutive ones: two Variables with no comma, a
\* leading, doubled or trailing comma and any other token are rejected.
C15_MalformedParametersRejected ==
    \A params \in ParameterLists, nested \in BOOLEAN :
        (js_node = FunctionWith(params, nested) /\ pc # "find_variables") =>
            ((pc = "raised" /\ outcome = "CompileException")
                 <=> ~CommaSeparatedVariables(params))

(***************************************************************************)
(* compile_javascript_string: the lexer and then every step of _compile,   *)
(* on the inputs below under each language.                                *)
(***************************************************************************)
\* function(total,count){return total+count;}
FunctionAtRoot ==
    << "f", "u", "n", "c", "t", "i", "o", "n", "(", "t", "o", "t", "a", "l",
       ",", "c", "o", "u", "n", "t", ")", "{", "r", "e", "t", "u", "r", "n",
       " ", "t", "o", "t", "a", "l", "+", "c", "o", "u", "n", "t", ";", "}" >>

\* {function(total,count){return total+count;}}
FunctionInScope ==
    << "{", "f", "u", "n", "c", "t", "i", "o", "n", "(", "t", "o", "t", "a",
       "l", ",", "c", "o", "u", "n", "t", ")", "{", "r", "e", "t", "u", "r",
       "n", " ", "t", "o", "t", "a", "l", "+", "c", "o", "u", "n", "t", ";",
       "}", "}" >>

\* gettext("Hi")
GettextAtRoot ==
    << "g", "e", "t", "t", "e", "x", "t", "(", "\"", "H", "i", "\"", ")" >>

\* alert(gettext("Hi"))
GettextInParentheses ==
    << "a", "l", "e", "r", "t", "(", "g", "e", "t", "t", "e", "x", "t", "(",
       "\"", "H", "i", "\"", ")", ")" >>

\* {gettext("Hi")}
GettextInScope ==
    << "{", "g", "e", "t", "t", "e", "x", "t", "(", "\"", "H", "i", "\"",
       ")", "}" >>

\* [gettext("Hi")]
GettextInSquareBrackets ==
    << "[", "g", "e", "t", "t", "e", "x", "t", "(", "\"", "H", "i", "\"",
       ")", "]" >>

\* {f([gettext ("Hi")])}
GettextDeep ==
    << "{", "f", "(", "[", "g", "e", "t", "t", "e", "x", "t", " ", "(",
       "\"", "H", "i", "\"", ")", "]", ")", "}" >>

\* if(x){ {var y=x;} }
ScopeInScope ==
    << "i", "f", "(", "x", ")", "{", " ", "{", "v", "a", "r", " ", "y", "=",
       "x", ";", "}", " ", "}" >>

\* f(gettext('say "hi"'))
GettextQuoted ==
    << "f", "(", "g", "e", "t", "t", "e", "x", "t", "(", "'", "s", "a", "y",
       " ", "\"", "h", "i", "\"", "'", ")", ")" >>

CompiledStrings ==
    { FunctionAtRoot, FunctionInScope, GettextAtRoot, GettextInParentheses,
      GettextInScope, GettextInSquareBrackets, GettextDeep, ScopeInScope,
      GettextQuoted }

InitCompile ==
    /\ pc = "tokenize"
    /\ outcome = "none"
    /\ js_node = Root(<<>>)
    /\ string \in CompiledStrings
    /\ lexer = LexerStart
    /\ language \in Languages
    /\ remembered = <<>>
    /\ IdleCache
    /\ IdleMinify

AddParserExtensions ==
    /\ pc = "tokenize"
    /\ Lexed
    /\ lexer.error = ""
    /\ js_node' = Root(token_tree(lexer.tokens, 1).kids)
    /\ pc' = "_validate_javascript"
    /\ UNCHANGED <<outcome, lexVars, cacheVars, gettextVars, minifyVars>>

ValidateJavascript ==
    /\ pc = "_validate_javascript"
    /\ LET r == validate_javascript(js_node)
       IN /\ outcome' = IF r = "accept" THEN outcome ELSE r
          /\ pc' = IF r = "accept" THEN "_compress_javascript_whitespace"
                   ELSE "raised"
    /\ UNCHANGED <<js_node, lexVars, cacheVars, gettextVars, minifyVars>>

CompressJavascriptWhitespace ==
    /\ pc = "_compress_javascript_whitespace"
    /\ js_node' = compress_javascript_whitespace(js_node)
    /\ pc' = "_process_gettext"
    /\ UNCHANGED <<outcome, lexVars, cacheVars, gettextVars, minifyVars>>

ProcessGettext ==
    /\ pc = "_process_gettext"
    /\ LET r == process_gettext(js_node, language,
                                [err |-> "", remembered |-> remembered,
                                 translations |-> translations,
                                 loads |-> loads])
       IN /\ js_node' = r.node
          /\ remembered' = r.st.remembered
          /\ translations' = r.st.translations
          /\ loads' = r.st.loads
          /\ outcome' = IF r.st.err = "" THEN outcome ELSE r.st.err
          /\ pc' = IF r.st.err = "" THEN "_minify_variable_names" ELSE "raised"
    /\ UNCHANGED <<language, threads, lexVars, minifyVars>>

MinifyVariableNames ==
    /\ pc = "_minify_variable_names"
    /\ LET r == resolved(js_node)
       IN /\ symbol_table' = r.table
          /\ link_to' = r.links
          /\ global_variable_names' = r.globals
          /\ outcome' = IF r.err = "" THEN outcome ELSE r.err
          /\ pc' = IF r.err = "" THEN "fix_whitespace_bug" ELSE "raised"
          /\ varnames' \in IF r.err = ""
                           THEN rename_variables(r.table, js_node, <<>>,
                                                 avoided(r.globals))
                           ELSE { {} }
    /\ UNCHANGED <<js_node, numeral, lexVars, cacheVars, gettextVars>>

FixWhitespaceBug ==
    /\ pc = "fix_whitespace_bug"
    /\ js_node' = fix_whitespace_bug(js_node)
    /\ symbol_table' = { [e EXCEPT !.scope = moved(js_node, @),
                                   !.var = moved(js_node, @)] : e \in symbol_table }
    /\ link_to' = { [l EXCEPT !.var = moved(js_node, @),
                              !.to = moved(js_node, @)] : l \in link_to }
    /\ varnames' = { [e EXCEPT !.var = moved(js_node, @)] : e \in varnames }
    /\ global_variable_names' =
           { [g EXCEPT !.var = moved(js_node, @)] : g \in global_variable_names }
    /\ pc' = "compiled"
    /\ UNCHANGED <<outcome, numeral, lexVars, cacheVars, gettextVars>>

NextCompile ==
    \/ Tokenize
    \/ AddParserExtensions
    \/ ValidateJavascript
    \/ CompressJavascriptWhitespace
    \/ ProcessGettext
    \/ MinifyVariableNames
    \/ FixWhitespaceBug

SpecCompile == InitCompile /\ [][NextCompile]_vars

\* line 824: return tree.output_as_string()
Compiled == output_as_string(js_node, varnames, link_to)

\* C1: the parameters of a function whose parameter list is identifiers
\* separated by commas and which is followed by a Scope are declarations of
\* that Scope and are renamed wherever the `function` keyword stands, also
\* as a child of the document root: function(total,count){return total+count;}
\* alone compiles to function(a,b){return a+b;}, and inside a scope its two
\* parameters are given the names a and b.
C1_ParametersRenamed ==
    pc = "compiled" =>
        /\ string = FunctionAtRoot => Compiled = "function(a,b){return a+b;}"
        /\ string = FunctionInScope =>
               Compiled \in { "{function(a,b){return a+b;}}",
                              "{function(b,a){return b+a;}}" }

\* C2: gettext("Hi") compiled under a language with no catalog renders "Hi":
\* the Variable gettext and its Parentheses are replaced by one double-quoted
\* string holding the text, and the text Hi is remembered exactly once, the
\* call being a child of the document root or at any nesting depth.
C2_GettextCallReplaced ==
    (pc = "compiled" /\ language \notin Catalogs) =>
        /\ string = GettextAtRoot => Compiled = "\"Hi\""
        /\ string = GettextInParentheses => Compiled = "alert(\"Hi\")"
        /\ string = GettextInScope => Compiled = "{\"Hi\"}"
        /\ string = GettextInSquareBrackets => Compiled = "[\"Hi\"]"
        /\ string = GettextDeep => Compiled = "{f([\"Hi\"])}"
        /\ string \in { GettextAtRoot, GettextInParentheses, GettextInScope,
                        GettextInSquareBrackets, GettextDeep } =>
               remembered = <<"Hi">>

\* C14: the literal written for a gettext call holds the translated text with
\* every double quote escaped exactly once: the translation say "hi" renders
\* as "say \"hi\"", one backslash before each inner quote.
C14_QuotesEscapedOnce ==
    (pc = "compiled" /\ string = GettextQuoted) =>
        Compiled = IF language \in Catalogs
                   THEN "f(\"[" \o language \o "]say \\\"hi\\\"\")"
                   ELSE "f(\"say \\\"hi\\\"\")"

(***************************************************************************)
(* generate_varname called with the names to avoid being the first names   *)
(* it hands out, or all one-letter names and a few more.                   *)
(***************************************************************************)
\* The n-th name generate_varname reaches, counting from 0.
ReachedName(n) ==
    IF n < 26 THEN lowercase[n + 1]
    ELSE lowercase[((n - 26) % 26) + 1] \o lowercase[((n - 26) \div 26) + 1]

OneLetterNames == { lowercase[i] : i \in 1..26 }

AvoidedNames ==
    { { ReachedName(i) : i \in 0..(k - 1) } : k \in 0..MaxAvoided }
    \cup { OneLetterNames \cup more : more \in SUBSET {"aa", "ab", "ba", "bb"} }
    \cup SUBSET {"a", "b", "c", "d"}

InitVarname ==
    /\ pc = "generate_varname"
    /\ outcome = "none"
    /\ js_node = Root(<<>>)
    /\ \E avoid_names \in AvoidedNames :
          global_variable_names =
              { [var |-> <<>>, name |-> n] : n \in avoid_names }
    /\ numeral = <<0>>
    /\ symbol_table = {}
    /\ link_to = {}
    /\ varnames = {}
    /\ IdleLexer
    /\ IdleCache
    /\ IdleGettext

\* lines 546-556: one turn of the while loop, the name of the numeral is taken
GenerateVarnameLoop ==
    /\ pc = "generate_varname"
    /\ varname_output(numeral) \in avoided(global_variable_names) \cup JS_KEYWORDS
    /\ numeral' = overflow([numeral EXCEPT ![1] = @ + 1], 1, Len(numeral))
    /\ UNCHANGED <<treeVars, lexVars, cacheVars, gettextVars, symbol_table,
                   link_to, varnames, global_variable_names>>

\* lines 546, 558: the name of the numeral is free and is returned
GenerateVarnameReturn ==
    /\ pc = "generate_varname"
    /\ varname_output(numeral) \notin avoided(global_variable_names) \cup JS_KEYWORDS
    /\ outcome' = varname_output(numeral)
    /\ pc' = "generated"
    /\ UNCHANGED <<js_node, lexVars, cacheVars, gettextVars, minifyVars>>

NextVarname == GenerateVarnameLoop \/ GenerateVarnameReturn

SpecVarname == InitVarname /\ [][NextVarname]_vars

\* The n-th name of a, b, ..., z, aa, ab, ..., az, ba, ..., counting from 0.
OrderedName(n) ==
    IF n < 26 THEN lowercase[n + 1]
    ELSE lowercase[((n - 26) \div 26) + 1] \o lowercase[((n - 26) % 26) + 1]

\* The words the lexer takes as keywords or as word operators.
ReservedWords ==
    { JoinText(LexerKeywords[k]) : k \in 1..Len(LexerKeywords) }
    \cup {"in", "instanceof"}

FirstOrderedName(avoid_names) ==
    LET free == { n \in 0..701 :
                    OrderedName(n) \notin avoid_names \cup ReservedWords }
    IN OrderedName(CHOOSE n \in free : \A m \in free : n <= m)

\* C13: generate_varname returns the first name of a, b, ..., z, aa, ab, ...,
\* az, ba, ... (shorter names first, then in dictionary order) that is not
\* among the names to avoid and is no word the lexer reserves (do, if, case,
\* in, instanceof, ...).
C13_FirstFreeName ==
    pc = "generated" =>
        outcome = FirstOrderedName(avoided(global_variable_names))

=============================================================================
